---- MODULE Spec2Model ----
(***************************************************************************)
(* Turn engine of the audio relay game (roterfaden).                       *)
(*                                                                         *)
(* Two variants of the server exist in the repository:                     *)
(*   "shared"  - src/unnamed/part_000: one process-wide sharedGameState,   *)
(*               persisted to game-state.json, with a reset route;         *)
(*   "session" - src/server.js: one gameState per session (one session is  *)
(*               modelled), no persistence, no reset route.                *)
(* A slot is the positional 4-tuple of the source:                         *)
(*   <<firstFile, secondFile, playerName, timestamp>>                      *)
(* (player[0..3] in JavaScript is p[1..4] here).  JavaScript's null is     *)
(* the empty tuple; a file name, a name and a timestamp are non-empty      *)
(* tuples, so that an optional field is compared with null without mixing  *)
(* value kinds.  Each handler is synchronous and is one atomic action; all *)
(* Date.now() readings inside one handler are the same clock reading.      *)
(***************************************************************************)
EXTENDS Integers, Sequences, FiniteSets, TLC

VARIABLES variant, gameState, savedGameState, clock, req, before, res

vars == <<variant, gameState, savedGameState, clock, req, before, res>>

\* ---------------------------------------------------------------- bounds
MaxSlots == 3
MaxNow == 240001

\* ------------------------------------------------------------- constants
twoMinutes == 2 * 60 * 1000

\* ---------------------------------------------------------------- values
null == <<>>

Variants == {"shared", "session"}

\* clock advances between requests: exactly the timeout, or just past it
Deltas == {twoMinutes, twoMinutes + 1}

\* request body fields
Body(audioData, mimeType, playerName) ==
    [audioData |-> audioData, mimeType |-> mimeType, playerName |-> playerName]

Bodies ==
    {Body(null, null, null),
     Body(<<"base64">>, null, null),
     Body(<<"base64">>, <<"audio/webm">>, null),
     Body(<<"base64">>, <<"audio/wav">>, <<"Alice">>)}

\* Math.round(Math.random() * 1E9): one representative value
Randoms == {0}

\* JavaScript truthiness of a string-or-null and of a number-or-null
TruthyStr(s) == s # null
TruthyNum(n) == n # null /\ n[1] # 0

\* ------------------------------------------------------ status computation
Status(isNewPlayer, playerNumber, needsSecondFile, canRecordFirst, canRecordSecond) ==
    [isNewPlayer |-> isNewPlayer, playerNumber |-> playerNumber,
     needsSecondFile |-> needsSecondFile, canRecordFirst |-> canRecordFirst,
     canRecordSecond |-> canRecordSecond, isRecording |-> FALSE]

\* a timeout test that already fires at exactly two minutes
TimedOut_AtBoundary(recordingStartTime, now) ==
    TruthyNum(recordingStartTime) /\ (now - recordingStartTime[1]) >= twoMinutes

\* a timeout test that compares milliseconds with two minutes in seconds
TimedOut_InSeconds(recordingStartTime, now) ==
    TruthyNum(recordingStartTime) /\ (now - recordingStartTime[1]) > 2 * 60

\* the timeout test of getCurrentPlayerStatus
TimedOut(recordingStartTime, now) ==
    TruthyNum(recordingStartTime) /\ (now - recordingStartTime[1]) > twoMinutes

\* a reclamation that also wipes the display name
Reclaim_ClearsName(gs) ==
    [gs EXCEPT ![Len(gs)] = <<null, @[2], null, null>>]

\* a reclamation that forgets to clear the timestamp
Reclaim_KeepsTimestamp(gs) ==
    [gs EXCEPT ![Len(gs)] = <<null, @[2], @[3], @[4]>>]

\* the in-place reclamation: lastPlayer[0] = null; lastPlayer[3] = null
Reclaim(gs) ==
    [gs EXCEPT ![Len(gs)] = <<null, @[2], @[3], null>>]

\* an empty-list status that reports the list length as the turn number
StatusEmpty_TurnZero == Status(TRUE, 0, FALSE, TRUE, FALSE)

\* the six return statements of getCurrentPlayerStatus
StatusEmpty == Status(TRUE, 1, FALSE, TRUE, FALSE)

\* a both-files status that reuses the current turn number
StatusBothFiles_SameTurn(gs) == Status(TRUE, Len(gs), FALSE, TRUE, FALSE)


\* a both-files status that still asks for a second file
StatusBothFiles_StillSecond(gs) == Status(TRUE, Len(gs) + 1, TRUE, TRUE, TRUE)


StatusBothFiles(gs) == Status(TRUE, Len(gs) + 1, FALSE, TRUE, FALSE)

\* a timed-out status that moves on to the next turn number
StatusTimedOut_NextTurn(gs) == Status(TRUE, Len(gs) + 1, FALSE, TRUE, FALSE)


StatusTimedOut(gs) == Status(TRUE, Len(gs), FALSE, TRUE, FALSE)

\* a needs-second status that also lets a first clip be recorded
StatusNeedsSecond_AlsoFirst(gs) == Status(TRUE, Len(gs), TRUE, TRUE, TRUE)


\* a needs-second status that leaves canRecordFirst set
StatusNeedsSecond_KeepsFirst(gs) == Status(FALSE, Len(gs), TRUE, TRUE, TRUE)


StatusNeedsSecond(gs) == Status(FALSE, Len(gs), TRUE, FALSE, TRUE)

\* a no-files status that permits nothing
StatusNoFiles_NoPermission(gs) == Status(FALSE, Len(gs), FALSE, FALSE, FALSE)


StatusNoFiles(gs) == Status(FALSE, Len(gs), FALSE, TRUE, FALSE)

StatusNone(gs) == Status(FALSE, Len(gs), FALSE, FALSE, FALSE)

\* getCurrentPlayerStatus(gameState) with Date.now() = now.  The function
\* mutates its argument, so the result carries both the returned status
\* (ret) and the game state after the call (gs).
getCurrentPlayerStatus(gs, now) ==
    IF Len(gs) = 0
    THEN [ret |-> StatusEmpty, gs |-> gs]
    ELSE LET lastPlayer == gs[Len(gs)] IN
         IF Len(lastPlayer) >= 4 /\ TruthyStr(lastPlayer[1]) /\ TruthyStr(lastPlayer[2])
         THEN [ret |-> StatusBothFiles(gs), gs |-> gs]
         ELSE IF Len(lastPlayer) >= 4 /\ TruthyStr(lastPlayer[1]) /\ ~TruthyStr(lastPlayer[2])
         THEN IF TimedOut(lastPlayer[4], now)
              THEN [ret |-> StatusTimedOut(gs), gs |-> Reclaim(gs)]
              ELSE [ret |-> StatusNeedsSecond(gs), gs |-> gs]
         ELSE IF ~TruthyStr(lastPlayer[1])
         THEN [ret |-> StatusNoFiles(gs), gs |-> gs]
         ELSE [ret |-> StatusNone(gs), gs |-> gs]

\* a loop body that reveals the second file as soon as a next slot exists
VisibleEntry_NextSlotOnly(gs, i) ==
    LET player == gs[i] IN
    [playerNumber |-> i,
     playerName |-> IF TruthyStr(player[3]) THEN player[3] ELSE <<"Player", i>>,
     firstFile |-> IF TruthyStr(player[1]) THEN player[1] ELSE null,
     secondFile |-> IF TruthyStr(player[2]) /\ i + 1 <= Len(gs)
                    THEN player[2] ELSE null]

\* ---------------------------------------------------- visibility projection
\* one entry of the loop body of getVisibleAudioFiles, for 1-based index i
VisibleEntry(gs, i) ==
    LET player == gs[i] IN
    [playerNumber |-> i,
     playerName |-> IF TruthyStr(player[3]) THEN player[3] ELSE <<"Player", i>>,
     firstFile |-> IF TruthyStr(player[1]) THEN player[1] ELSE null,
     secondFile |-> IF TruthyStr(player[2]) /\ i + 1 <= Len(gs) /\ TruthyStr(gs[i + 1][1])
                    THEN player[2] ELSE null]

\* the for loop: push entry i, then continue with i + 1
RECURSIVE VisibleLoop(_, _, _)
VisibleLoop(gs, i, visibleFiles) ==
    IF i > Len(gs) THEN visibleFiles
    ELSE VisibleLoop(gs, i + 1, Append(visibleFiles, VisibleEntry(gs, i)))

getVisibleAudioFiles(gs) == VisibleLoop(gs, 1, <<>>)

\* ------------------------------------------------------------- file names
\* `player${playerIdx}_file${n}_${Date.now()}-${random}${extension}`
Extension(mimeType) == IF mimeType = <<"audio/webm">> THEN ".webm" ELSE ".wav"

Filename(playerIdx, n, now, rnd, mimeType) ==
    <<"player", playerIdx, "_file", n, now, rnd, Extension(mimeType)>>

\* playerName || `Spieler ${n}` (shared) / `Player ${n}` (session)
DefaultName(v, n) == IF v = "shared" THEN <<"Spieler", n>> ELSE <<"Player", n>>

\* ---------------------------------------------------------- request/response
NoStatus == Status(FALSE, 0, FALSE, FALSE, FALSE)

Request(op, audioData, mimeType, playerName) ==
    [op |-> op, audioData |-> audioData, mimeType |-> mimeType, playerName |-> playerName]

Response(code, playerStatus, filename, visibleFiles) ==
    [code |-> code, playerStatus |-> playerStatus, filename |-> filename,
     visibleFiles |-> visibleFiles]

NoResponse == Response(0, NoStatus, null, <<>>)

\* saveGameState(): only the shared variant persists
saveGameState(v, gs, saved) == IF v = "shared" THEN gs ELSE saved

\* a record-first handler without its gate
FirstGate_NoCheck(v, playerStatus) == TRUE

\* the gate of each record handler
FirstGate(v, playerStatus) ==
    IF v = "shared" THEN playerStatus.canRecordFirst ELSE playerStatus.isNewPlayer

SecondGate(v, playerStatus) ==
    IF v = "shared" THEN playerStatus.canRecordSecond ELSE playerStatus.needsSecondFile

\* ------------------------------------------------------------------- Init
Init ==
    /\ variant \in Variants
    /\ gameState = <<>>
    /\ savedGameState = <<>>
    /\ clock = 0
    /\ req = Request("init", null, null, null)
    /\ before = <<>>
    /\ res = NoResponse

\* ---------------------------------------------------------------- actions
\* GET /api/game-state
GetGameState ==
    LET st == getCurrentPlayerStatus(gameState, clock) IN
    /\ gameState' = st.gs
    /\ res' = Response(200, st.ret, null, getVisibleAudioFiles(st.gs))
    /\ req' = Request("game-state", null, null, null)
    /\ before' = gameState
    /\ UNCHANGED <<variant, savedGameState, clock>>

\* a push that omits the timestamp
FirstSlot_NoTimestamp(v, playerIdx, filename, playerName, now) ==
    <<filename, null, IF TruthyStr(playerName) THEN playerName ELSE DefaultName(v, playerIdx + 1), null>>

\* the new slot pushed by POST /api/record-first-audio
FirstSlot(v, playerIdx, filename, playerName, now) ==
    <<filename, null, IF TruthyStr(playerName) THEN playerName ELSE DefaultName(v, playerIdx + 1), <<now>> >>

\* POST /api/record-first-audio
RecordFirstAudio(audioData, mimeType, playerName, rnd) ==
    /\ req' = Request("record-first-audio", audioData, mimeType, playerName)
    /\ before' = gameState
    /\ UNCHANGED <<variant, clock>>
    /\ IF ~TruthyStr(audioData)
       THEN /\ res' = Response(400, NoStatus, null, <<>>)
            /\ UNCHANGED <<gameState, savedGameState>>
       ELSE LET st == getCurrentPlayerStatus(gameState, clock) IN
            IF ~FirstGate(variant, st.ret)
            THEN /\ res' = Response(400, st.ret, null, <<>>)
                 /\ gameState' = st.gs
                 /\ UNCHANGED savedGameState
            ELSE IF mimeType = null
            THEN \* mimeType.includes throws a TypeError, caught: 500
                 /\ res' = Response(500, st.ret, null, <<>>)
                 /\ gameState' = st.gs
                 /\ UNCHANGED savedGameState
            ELSE LET playerIdx == Len(st.gs)
                     filename == Filename(playerIdx, 1, clock, rnd, mimeType)
                 IN /\ Len(st.gs) < MaxSlots
                    /\ gameState' = Append(st.gs, FirstSlot(variant, playerIdx, filename, playerName, clock))
                    /\ savedGameState' = saveGameState(variant, gameState', savedGameState)
                    /\ res' = Response(200, st.ret, filename, <<>>)

\* an update that leaves the timestamp in place
SecondSlot_KeepsTimestamp(player, filename, playerName) ==
    <<player[1], filename, IF TruthyStr(playerName) THEN playerName ELSE player[3], player[4]>>

\* the update of the last slot by POST /api/record-second-audio
SecondSlot(player, filename, playerName) ==
    <<player[1], filename, IF TruthyStr(playerName) THEN playerName ELSE player[3], null>>

\* POST /api/record-second-audio
RecordSecondAudio(audioData, mimeType, playerName, rnd) ==
    /\ req' = Request("record-second-audio", audioData, mimeType, playerName)
    /\ before' = gameState
    /\ UNCHANGED <<variant, clock>>
    /\ IF ~TruthyStr(audioData)
       THEN /\ res' = Response(400, NoStatus, null, <<>>)
            /\ UNCHANGED <<gameState, savedGameState>>
       ELSE LET st == getCurrentPlayerStatus(gameState, clock) IN
            IF ~SecondGate(variant, st.ret)
            THEN /\ res' = Response(400, st.ret, null, <<>>)
                 /\ gameState' = st.gs
                 /\ UNCHANGED savedGameState
            ELSE IF mimeType = null
            THEN /\ res' = Response(500, st.ret, null, <<>>)
                 /\ gameState' = st.gs
                 /\ UNCHANGED savedGameState
            ELSE LET playerIdx == Len(st.gs) - 1
                     filename == Filename(playerIdx, 2, clock, rnd, mimeType)
                 IN /\ gameState' = [st.gs EXCEPT ![Len(st.gs)] = SecondSlot(@, filename, playerName)]
                    /\ savedGameState' = saveGameState(variant, gameState', savedGameState)
                    /\ res' = Response(200, st.ret, filename, <<>>)

\* POST /api/reset-game (shared variant only)
ResetGame ==
    /\ variant = "shared"
    /\ gameState' = <<>>
    /\ savedGameState' = saveGameState(variant, gameState', savedGameState)
    /\ req' = Request("reset-game", null, null, null)
    /\ before' = gameState
    /\ res' = Response(200, NoStatus, null, <<>>)
    /\ UNCHANGED <<variant, clock>>

\* time passes between requests
Tick(d) ==
    /\ clock + d <= MaxNow
    /\ clock' = clock + d
    /\ req' = Request("tick", null, null, null)
    /\ before' = gameState
    /\ res' = NoResponse
    /\ UNCHANGED <<variant, gameState, savedGameState>>

Next ==
    \/ GetGameState
    \/ \E b \in Bodies, r \in Randoms :
          RecordFirstAudio(b.audioData, b.mimeType, b.playerName, r)
    \/ \E b \in Bodies, r \in Randoms :
          RecordSecondAudio(b.audioData, b.mimeType, b.playerName, r)
    \/ ResetGame
    \/ \E d \in Deltas : Tick(d)

Spec == Init /\ [][Next]_vars

\* ============================================================ properties
\* helpers for the properties: the slot fields by name
firstClip(p) == p[1]
secondClip(p) == p[2]
displayName(p) == p[3]
timestamp(p) == p[4]

Last(gs) == gs[Len(gs)]

OnlyFirst(p) == firstClip(p) # null /\ secondClip(p) = null

\* the last request was a status query / a record request carrying audio
Queried == req.op = "game-state"
FirstAttempt == req.op = "record-first-audio" /\ req.audioData # null
SecondAttempt == req.op = "record-second-audio" /\ req.audioData # null

\* the state the last handler saw had a last slot with only a first clip,
\* recorded at a time t with now - t > TIMEOUT / <= TIMEOUT
Elapsed ==
    /\ before # <<>>
    /\ OnlyFirst(Last(before))
    /\ timestamp(Last(before)) # null
    /\ clock - timestamp(Last(before))[1] > 120000

WithinTimeout ==
    /\ before # <<>>
    /\ OnlyFirst(Last(before))
    /\ timestamp(Last(before)) # null
    /\ clock - timestamp(Last(before))[1] <= 120000

\* before, with its last slot's first clip and timestamp cleared
Reclaimed(gs) ==
    [i \in 1..Len(gs) |->
        IF i = Len(gs) THEN <<null, secondClip(gs[i]), displayName(gs[i]), null>> ELSE gs[i]]

FreshMayRecordFirst(st, turn) ==
    /\ st.isNewPlayer
    /\ st.canRecordFirst
    /\ ~st.canRecordSecond
    /\ ~st.needsSecondFile
    /\ st.playerNumber = turn

\* C1: whenever the last slot has only a first clip recorded at any t >= 0
\* (t = 0 included) and now - t > 120000, a status query clears that slot's
\* first clip and timestamp, keeps the sequence length, and reports that a
\* fresh participant may record first at turn number = sequence length.
C1_ReclaimOnTimeout ==
    (Queried /\ Elapsed) =>
        /\ gameState = Reclaimed(before)
        /\ Len(gameState) = Len(before)
        /\ FreshMayRecordFirst(res.playerStatus, Len(before))

\* C2: an accepted record-first on a state whose last slot is reclaimed
\* (both clips null) writes the new first clip into that same slot: the
\* length is unchanged, exactly one slot holds the new clip, and its
\* position is the turn number the status reported.
C2_ReclaimedSlotReused ==
    LET seen == getCurrentPlayerStatus(before, clock).gs IN
    (FirstAttempt /\ res.code = 200 /\ seen # <<>>
        /\ firstClip(Last(seen)) = null /\ secondClip(Last(seen)) = null) =>
        /\ Len(gameState) = Len(before)
        /\ Cardinality({i \in 1..Len(gameState) : firstClip(gameState[i]) = res.filename}) = 1
        /\ firstClip(gameState[res.playerStatus.playerNumber]) = res.filename

\* C3 (as stated): a record-second whose status does not permit recording a
\* second clip is rejected and leaves the game state completely unchanged,
\* also when the last slot's timeout has elapsed at the request.
C3_RejectedSecondUnchanged ==
    (SecondAttempt /\ ~res.playerStatus.canRecordSecond /\ ~res.playerStatus.needsSecondFile) =>
        /\ res.code = 400
        /\ gameState = before

\* C3 (amended): such a record-second is rejected, nothing is appended or
\* persisted, and the game state is unchanged unless the last slot's
\* timeout has elapsed, in which case exactly that slot's first clip and
\* timestamp are cleared by the status computation of the request.
C3_RejectedSecondOnlyReclaims ==
    (SecondAttempt /\ ~res.playerStatus.canRecordSecond /\ ~res.playerStatus.needsSecondFile) =>
        /\ res.code = 400
        /\ res.filename = null
        /\ gameState = IF Elapsed THEN Reclaimed(before) ELSE before
        /\ Elapsed => FreshMayRecordFirst(res.playerStatus, Len(before))

C3_Witness ==
    /\ SecondAttempt
    /\ Elapsed
    /\ res.code = 400
    /\ gameState # before

\* C4: a record-first whose status has may-record-first false (last slot
\* has a first clip, no second clip, within the timeout) is rejected and
\* leaves the whole slot sequence unchanged.
C4_RejectedFirstUnchanged ==
    (FirstAttempt /\ ~res.playerStatus.canRecordFirst) =>
        /\ res.code = 400
        /\ res.filename = null
        /\ gameState = before
        /\ before # <<>> /\ OnlyFirst(Last(before))

C4_Witness ==
    /\ FirstAttempt
    /\ ~res.playerStatus.canRecordFirst
    /\ WithinTimeout
    /\ res.code = 400

\* C5: whenever the last slot has a first clip, no second clip, and
\* now - timestamp <= 120000 (boundary included), a status query reports
\* may-record-second and needs-second-file, not may-record-first, not a
\* fresh participant, turn number = sequence length, and changes no slot.
C5_WithinTimeoutSecondOnly ==
    (Queried /\ WithinTimeout) =>
        /\ res.playerStatus.canRecordSecond
        /\ res.playerStatus.needsSecondFile
        /\ ~res.playerStatus.canRecordFirst
        /\ ~res.playerStatus.isNewPlayer
        /\ res.playerStatus.playerNumber = Len(before)
        /\ gameState = before

C5_Witness ==
    /\ Queried
    /\ WithinTimeout
    /\ clock - timestamp(Last(before))[1] = 120000
    /\ res.playerStatus.canRecordSecond

\* C6: whenever the slot sequence is empty or its last slot has both clips,
\* a status query reports a fresh participant who may record first and not
\* second, with turn number = sequence length + 1, and leaves the state
\* unchanged.
C6_FreshParticipantNextTurn ==
    (Queried /\ (before = <<>> \/ (firstClip(Last(before)) # null /\ secondClip(Last(before)) # null))) =>
        /\ FreshMayRecordFirst(res.playerStatus, Len(before) + 1)
        /\ gameState = before

C6_Witness ==
    /\ Queried
    /\ before # <<>>
    /\ firstClip(Last(before)) # null
    /\ secondClip(Last(before)) # null
    /\ res.playerStatus.playerNumber = Len(before) + 1

\* C7: the visibility projection has one entry per slot in slot order; it
\* shows slot i's first clip exactly when it is non-null, and slot i's
\* second clip exactly when it is non-null and slot i+1 exists with a
\* non-null first clip; so the last slot's second clip is never visible.
C7_RevealRule ==
    LET gs == gameState
        visible == getVisibleAudioFiles(gs)
    IN /\ Len(visible) = Len(gs)
       /\ Queried => res.visibleFiles = visible
       /\ \A i \in 1..Len(gs) :
            /\ visible[i].playerNumber = i
            /\ visible[i].firstFile = firstClip(gs[i])
            /\ (visible[i].secondFile # null) <=>
                  (secondClip(gs[i]) # null /\ i < Len(gs) /\ firstClip(gs[i + 1]) # null)
            /\ visible[i].secondFile \in {null, secondClip(gs[i])}
       /\ gs # <<>> => visible[Len(gs)].secondFile = null

C7_Witness ==
    /\ Queried
    /\ Len(gameState) = 2
    /\ secondClip(gameState[1]) # null
    /\ firstClip(gameState[2]) = null
    /\ res.visibleFiles[1].secondFile = null
    /\ getVisibleAudioFiles(before)[1].secondFile # null

\* C8: an accepted record-second sets the second clip on the last slot,
\* clears its timestamp, overwrites its name only if a non-empty name was
\* supplied, keeps its first clip, leaves every other slot and the length
\* unchanged; the status computed right afterwards reports a fresh
\* participant may record first at turn number length + 1.
C8_AcceptedSecond ==
    (req.op = "record-second-audio" /\ res.code = 200) =>
        LET n == Len(before)
            after == getCurrentPlayerStatus(gameState, clock)
        IN /\ n > 0
           /\ Len(gameState) = n
           /\ \A i \in 1..(n - 1) : gameState[i] = before[i]
           /\ res.filename # null
           /\ secondClip(gameState[n]) = res.filename
           /\ timestamp(gameState[n]) = null
           /\ firstClip(gameState[n]) = firstClip(before[n])
           /\ firstClip(gameState[n]) # null
           /\ displayName(gameState[n]) =
                 IF req.playerName # null THEN req.playerName ELSE displayName(before[n])
           /\ FreshMayRecordFirst(after.ret, n + 1)
           /\ after.gs = gameState

C8_Witness ==
    /\ req.op = "record-second-audio"
    /\ res.code = 200
    /\ req.playerName # null
    /\ displayName(Last(before)) # req.playerName
    /\ displayName(Last(gameState)) = req.playerName
    /\ Len(gameState) = 2

\* C9: only the last slot may be incomplete: every slot before the last
\* has both clips, or is a reclaimed slot with both clips and the
\* timestamp null.
C9_OnlyLastIncomplete ==
    \A i \in 1..(Len(gameState) - 1) :
        \/ firstClip(gameState[i]) # null /\ secondClip(gameState[i]) # null
        \/ /\ firstClip(gameState[i]) = null
           /\ secondClip(gameState[i]) = null
           /\ timestamp(gameState[i]) = null

C9_Witness ==
    /\ Len(gameState) = 3
    /\ firstClip(gameState[1]) # null /\ secondClip(gameState[1]) # null
    /\ firstClip(gameState[2]) = null /\ secondClip(gameState[2]) = null
    /\ OnlyFirst(gameState[3])

\* C10: for every slot, the timestamp is non-null if and only if the slot
\* has a first clip and no second clip.
C10_TimestampIffOnlyFirst ==
    \A i \in 1..Len(gameState) :
        (timestamp(gameState[i]) # null) <=> OnlyFirst(gameState[i])

C10_Witness ==
    /\ Len(gameState) = 3
    /\ secondClip(gameState[1]) # null /\ timestamp(gameState[1]) = null
    /\ firstClip(gameState[2]) = null /\ timestamp(gameState[2]) = null
    /\ OnlyFirst(gameState[3]) /\ timestamp(gameState[3]) # null
    /\ req.op = "record-first-audio"

\* the clock readings at which a later request may arrive
Nows == {clock} \cup {clock + d : d \in Deltas}

Complete(p) == firstClip(p) # null /\ secondClip(p) # null

\* C11: handlers run one at a time on the shared state, and of two
\* record-first requests issued for the same turn at most one is accepted
\* while the first one's slot is within its timeout: an accepted
\* record-first appends exactly one slot, never on top of a last slot that
\* holds only a first clip within its timeout, and a record-first that
\* directly follows an accepted one is rejected without any change.
C11_OneSlotPerTurn ==
    /\ [](FirstAttempt /\ res.code = 200 =>
            /\ ~WithinTimeout
            /\ Len(gameState) = Len(before) + 1
            /\ \A i \in 1..Len(before) : secondClip(gameState[i]) = secondClip(before[i]))
    /\ [][(FirstAttempt /\ res.code = 200
            /\ req'.op = "record-first-audio" /\ req'.audioData # null) =>
                (res'.code = 400 /\ gameState' = gameState)]_vars

C11_Witness ==
    /\ FirstAttempt
    /\ res.code = 400
    /\ WithinTimeout
    /\ clock = timestamp(Last(before))[1]
    /\ req.mimeType # null
    /\ variant = "shared"

\* C12: from any state, reset yields the empty slot sequence (in memory and
\* persisted), and the status computed right afterwards reports a fresh
\* participant may record first at turn number 1, whatever the state was
\* before the reset.
C12_ResetToEmpty ==
    (req.op = "reset-game") =>
        /\ gameState = <<>>
        /\ savedGameState = <<>>
        /\ res.code = 200
        /\ \A now \in Nows :
             LET after == getCurrentPlayerStatus(gameState, now) IN
             /\ FreshMayRecordFirst(after.ret, 1)
             /\ after.gs = <<>>

C12_Witness ==
    /\ req.op = "reset-game"
    /\ Len(before) = 2
    /\ Complete(before[1])
    /\ OnlyFirst(before[2])
    /\ gameState = <<>>

\* C13: in both server variants a record-first request that carries audio
\* data (and a mime type) is accepted if and only if the status computed
\* at that moment has canRecordFirst true; in particular it is accepted
\* when the last slot has neither clip.
C13_AcceptedIffCanRecordFirst ==
    (FirstAttempt /\ req.mimeType # null) =>
        (res.code = 200 <=> res.playerStatus.canRecordFirst)

\* a record-first / record-second request with audio arriving at clock
\* reading now would pass its gate
WouldAcceptFirst(now) == FirstGate(variant, getCurrentPlayerStatus(gameState, now).ret)
WouldAcceptSecond(now) == SecondGate(variant, getCurrentPlayerStatus(gameState, now).ret)

\* C14: the game never stalls permanently: in every reachable state some
\* record-first or record-second request, now or after the clock has
\* advanced, would be accepted; and once a timed-out last slot has been
\* reclaimed by a status computation, a record-first request is accepted.
C14_NoPermanentStall ==
    /\ \E now \in Nows : WouldAcceptFirst(now) \/ WouldAcceptSecond(now)
    /\ (gameState # <<>> /\ firstClip(Last(gameState)) = null) => WouldAcceptFirst(clock)

\* C15: the "no action currently permitted" result is unreachable: every
\* status computed by a handler, and the status of every reachable state at
\* every clock reading, has may-record-first or may-record-second true.
C15_SomeActionPermitted ==
    /\ \A now \in Nows :
         LET st == getCurrentPlayerStatus(gameState, now).ret IN
         /\ st.canRecordFirst \/ st.canRecordSecond
         /\ st # StatusNone(gameState)
    /\ (Queried \/ ((FirstAttempt \/ SecondAttempt) /\ res.playerStatus # NoStatus)) =>
         (res.playerStatus.canRecordFirst \/ res.playerStatus.canRecordSecond)

C15_Witness ==
    /\ Queried
    /\ gameState # <<>>
    /\ firstClip(Last(gameState)) = null
    /\ res.playerStatus = StatusNoFiles(gameState)
    /\ gameState = before

\* C16 (as stated): two consecutive status queries at the same clock
\* reading return identical results, and the second leaves the state
\* unchanged, also when the first performed a timeout reclamation.
C16_StatusIdempotent ==
    [][(Queried /\ req'.op = "game-state") =>
          (res'.playerStatus = res.playerStatus /\ gameState' = gameState)]_vars

\* C16 (amended): two consecutive status queries at the same clock reading
\* return the same turn number and the same three permission flags, and
\* the second leaves the state unchanged; the fresh-participant flag is
\* the same too unless the first query performed a timeout reclamation, in
\* which case the first reports a fresh participant and the second an
\* existing one.
C16_StatusIdempotentButFresh ==
    [][(Queried /\ req'.op = "game-state") =>
          /\ gameState' = gameState
          /\ clock' = clock
          /\ res'.playerStatus.playerNumber = res.playerStatus.playerNumber
          /\ res'.playerStatus.canRecordFirst = res.playerStatus.canRecordFirst
          /\ res'.playerStatus.canRecordSecond = res.playerStatus.canRecordSecond
          /\ res'.playerStatus.needsSecondFile = res.playerStatus.needsSecondFile
          /\ res'.visibleFiles = res.visibleFiles
          /\ IF gameState # before
             THEN res.playerStatus.isNewPlayer /\ ~res'.playerStatus.isNewPlayer
             ELSE res'.playerStatus.isNewPlayer = res.playerStatus.isNewPlayer]_vars

C16_Witness ==
    /\ Queried
    /\ gameState # before
    /\ gameState = Reclaimed(before)
    /\ res.playerStatus.isNewPlayer
    /\ ~getCurrentPlayerStatus(gameState, clock).ret.isNewPlayer
    /\ getCurrentPlayerStatus(gameState, clock).ret.canRecordFirst

\* slot i's second clip is shown by entry i of the visibility projection of gs
Revealed(gs, i) == i <= Len(gs) /\ VisibleEntry(gs, i).secondFile # null

\* C17 (as stated): once a slot's second clip is visible it stays visible
\* in every later state until a reset.
C17_RevealMonotonic ==
    [][\A i \in 1..Len(gameState) :
          (Revealed(gameState, i) /\ req'.op # "reset-game") => Revealed(gameState', i)]_vars

\* C17 (amended): once a slot's second clip is visible it stays visible
\* across status queries, clock advances and record requests until a
\* reset, except that it is hidden again when the following slot, being
\* the last slot and holding only a first clip, is reclaimed by timeout.
C17_RevealUntilReclaim ==
    [][gameState' # gameState => \A i \in 1..Len(gameState) :
          (Revealed(gameState, i) /\ req'.op # "reset-game") =>
             \/ Revealed(gameState', i) /\ gameState'[i] = gameState[i]
             \/ /\ i + 1 = Len(gameState)
                /\ OnlyFirst(gameState[i + 1])
                /\ timestamp(gameState[i + 1]) # null
                /\ clock' - timestamp(gameState[i + 1])[1] > 120000
                /\ req'.op \in {"game-state", "record-first-audio", "record-second-audio"}
                /\ firstClip(gameState'[i + 1]) = null
                /\ gameState'[i] = gameState[i]]_vars

C17_Witness ==
    /\ req.op = "record-second-audio"
    /\ res.code = 400
    /\ Len(before) = 3
    /\ Revealed(before, 1)
    /\ Revealed(before, 2)
    /\ Revealed(gameState, 1)
    /\ ~Revealed(gameState, 2)

\* C18: in every reachable state, if slot i has both clips and some later
\* slot j > i has a non-null first clip, slot i's second clip is visible.
C18_CompletedReplyRevealed ==
    \A i \in 1..Len(gameState) : \A j \in 1..Len(gameState) :
        (i < j /\ Complete(gameState[i]) /\ firstClip(gameState[j]) # null) =>
            Revealed(gameState, i)

\* C19: once a slot has both clips, none of its four fields is changed by
\* any later status query, clock advance, record-first or record-second
\* request; only reset removes it.
C19_CompletedSlotImmutable ==
    [][gameState' # gameState => \A i \in 1..Len(gameState) :
          (Complete(gameState[i]) /\ req'.op # "reset-game") =>
             /\ i <= Len(gameState')
             /\ gameState'[i] = gameState[i]]_vars

C19_Witness ==
    /\ SecondAttempt
    /\ req.mimeType # null
    /\ req.playerName # null
    /\ before # <<>>
    /\ Complete(Last(before))
    /\ displayName(Last(before)) # req.playerName
    /\ clock > 120000
    /\ res.code = 400
    /\ gameState = before

\* C20: in every status result the permission flags are consistent:
\* may-record-first and may-record-second are never both true,
\* needs-second-file equals may-record-second, and the fresh-participant
\* flag implies may-record-first.
FlagsConsistent(st) ==
    /\ ~(st.canRecordFirst /\ st.canRecordSecond)
    /\ st.needsSecondFile = st.canRecordSecond
    /\ st.isNewPlayer => st.canRecordFirst

C20_FlagsConsistent ==
    /\ \A now \in Nows : FlagsConsistent(getCurrentPlayerStatus(gameState, now).ret)
    /\ FlagsConsistent(res.playerStatus)

C20_Witness ==
    /\ Queried
    /\ WithinTimeout
    /\ res.playerStatus.canRecordSecond
    /\ res.playerStatus.needsSecondFile
    /\ ~res.playerStatus.canRecordFirst
    /\ getCurrentPlayerStatus(gameState, clock + 120001).ret.isNewPlayer

====
